---------------------------- MODULE Spec2Model ----------------------------
(***************************************************************************)
(* VAIO staged pipeline: the full-auto orchestrator (core/full_auto.py),   *)
(* the stage functions it calls (core/audio.py, core/description.py,       *)
(* core/translate.py, core/captions.py, core/tts.py) and the metadata      *)
(* store (core/utils.py), as a state machine over one video asset.         *)
(*                                                                         *)
(* One resume invocation (full_auto.run) is a sequential process whose     *)
(* position is pc; every save_meta of the code is a step of its own, so    *)
(* every persisted stage value is observable.  The two fan-out stages run  *)
(* one worker per target language, interleaved.                            *)
(*                                                                         *)
(* Operations that are checked on their own have a specification each,     *)
(* over the same variables: the retry wrapper (RetrySpec), the metadata    *)
(* file under a crash and a concurrent load (StoreSpec), the pipeline      *)
(* with `vaio kb set` (KbSpec), two concurrent resume invocations          *)
(* (TwoRunSpec) and context injection (InjectSpec).                        *)
(***************************************************************************)
EXTENDS Integers, Sequences, FiniteSets, TLC

(***************************************************************************)
(* Bounds of the model.                                                    *)
(***************************************************************************)
\* number of resume invocations (full_auto.run) in one behaviour
MaxRuns == 3
\* number of target languages taken from TARGET_LANGUAGES
NumLangs == 2

(***************************************************************************)
(* Program constants.                                                      *)
(***************************************************************************)
SOURCE_LANGUAGE_CODE == "en"

\* The code of the file generate_captions writes: captions/<stem>.ru.srt
WHISPER_SRT_CODE == "ru"

\* Keys of constants.TARGET_LANGUAGES.  The dictionary is unordered for the
\* purposes of the pipeline; "ru" is listed first so that every bounded
\* prefix contains the code that Whisper's output file carries.
LangOrder == <<"ru", "ja", "de", "zh", "it", "es", "fr", "ar">>

TARGET_LANGUAGES == {LangOrder[i] : i \in 1..NumLangs}

\* every language code a file name of the model can carry
Codes == TARGET_LANGUAGES \cup {SOURCE_LANGUAGE_CODE, WHISPER_SRT_CODE}

\* lexicographic order of the codes, as sorted() orders the file names
AlphaOrder == <<"ar", "de", "en", "es", "fr", "it", "ja", "ru", "zh">>

AlphaRank(c) == CHOOSE i \in 1..Len(AlphaOrder) : AlphaOrder[i] = c

SortedFirst(S) == CHOOSE c \in S : \A d \in S : AlphaRank(c) <= AlphaRank(d)

\* tts.UNSUPPORTED_LANGS and the keys of tts.LANG_MAP
UNSUPPORTED_LANGS == {"ar", "de", "ru"}

LANG_MAP_KEYS == {"en", "es", "fr", "it", "pt", "hi", "ja", "zh"}

\* constants.CONCURRENCY = min(8, os.cpu_count() or 4), on a two-core host
CONCURRENCY == 2

(***************************************************************************)
(* The stage order of the pipeline.                                        *)
(***************************************************************************)
StageOrder ==
    <<"audio_done", "captions_done", "captions_verified", "description_done",
      "translated", "captions_translated", "tts_done">>

InitialStages == {"init", "audio_pending"}

Stages == InitialStages \cup {StageOrder[i] : i \in 1..Len(StageOrder)}

\* position of a stage in the order; init and audio_pending share position 0
StageRank(s) ==
    IF s \in InitialStages THEN 0
    ELSE CHOOSE i \in 1..Len(StageOrder) : StageOrder[i] = s

(***************************************************************************)
(* Python dictionaries: functions whose domain is the set of present keys. *)
(***************************************************************************)
EmptyDict == [k \in {} |-> ""]

Put(m, k, v) == [x \in (DOMAIN m) \cup {k} |-> IF x = k THEN v ELSE m[x]]

Get(m, k, default) == IF k \in DOMAIN m THEN m[k] ELSE default

Update(m, n) ==
    [x \in (DOMAIN m) \cup (DOMAIN n) |-> IF x \in DOMAIN n THEN n[x] ELSE m[x]]

\* {k: "done" if v else "failed" for k, v in results.items()}
OutcomeMap(res) == [c \in DOMAIN res |-> IF res[c] THEN "done" ELSE "failed"]

VARIABLES
    \* ---- the file system beside the asset ----
    metaFile,      \* <stem>.vaio.json: [kind, data]
    audioFile,     \* <stem>.mp3 exists
    captionsDir,   \* captions/ exists
    srt,           \* captions/<stem>.<code>.srt: code -> content
    descDir,       \* description/ exists
    td,            \* description/td.<code>.txt: code -> content
    tts,           \* codes with a narration file under tts/
    \* ---- the running resume invocation ----
    pc,            \* position of full_auto.run ("idle": no run in progress)
    stage,         \* run's local variable `stage`
    dataLang,      \* description.process: data.lang_code
    dataCaptions,  \* description.process: data.captions is non-empty
    procMeta,      \* translate.process: its local `meta`
    tdLang,        \* translate.process: td_lang
    prefCode,      \* captions.process: pref_code
    workers,       \* fan-out pool: code -> "queued" | "running" | "done"
    results,       \* fan-out: results of the completed futures
    \* ---- history (not program state) ----
    clock,         \* number of save_meta calls so far; stamps last_updated
    runs,          \* number of resume invocations started
    startStage,    \* the stage the current run read when it started
    metaAtStart,   \* metaFile when the current run started
    effects,       \* stage work performed by the current run
    written,       \* output files written by the current run
    prevWritten,   \* output files written by the previous run
    halt,          \* how the latest run ended ("running" while it runs)
    prevHalt,      \* how the run before the current one ended
    lastRejected,  \* the checkpoint rejected last and not approved since
    stageEntry,    \* the stage function entered last: [op, missing, meta]
    stageTrail,    \* the distinct persisted stage values, in order
    chatOut,       \* fan-out: what chat_with_retries gave each finished worker
    \* ---- operations checked on their own ----
    retry,         \* one call of the retry wrapper: its inputs and locals
    store,         \* a command saving the record, and a concurrent load
    procs,         \* two resume invocations on one asset: process -> [pc]
    inject,        \* one call of inject_context or retrieve: inputs, locals
    index,         \* knowledge directories, their indexes, builds and reads
    loader,        \* the documents made of one directory listing
    gen            \* one run of description.process: its calls and outcome

fsVars == <<metaFile, audioFile, captionsDir, srt, descDir, td, tts>>

runVars == <<pc, stage, dataLang, dataCaptions, procMeta, tdLang, prefCode,
             workers, results>>

histVars == <<clock, runs, startStage, metaAtStart, effects, written,
              prevWritten, halt, prevHalt, lastRejected, stageEntry,
              stageTrail>>

\* the state of the operations checked on their own; the pipeline leaves it
\* alone
sideVars == <<retry, store, procs, inject, index, loader, gen>>

vars == <<fsVars, runVars, histVars, chatOut, sideVars>>

(***************************************************************************)
(* Metadata store (core/utils.py).                                         *)
(***************************************************************************)
\* The file is absent, or holds a JSON object ("json"), a JSON value that is
\* not an object ("nondict"), text that is not JSON ("corrupt"), or the
\* beginning of a record whose writing has not finished ("partial").
\* load_meta: whatever json.loads returns, or a fresh default when the file
\* is absent or cannot be read and parsed
LoadMetaFrom(f, path) ==
    IF f.kind \in {"json", "nondict"} THEN f.data
    ELSE [file |-> path, stage |-> "audio_pending"]

load_meta(path) == LoadMetaFrom(metaFile, path)

\* save_meta: stamp last_updated and overwrite the file
save_meta(m, now) == [kind |-> "json", data |-> Put(m, "last_updated", now)]

\* the stage a load of the given file yields
StageOf(f) == Get(LoadMetaFrom(f, "video"), "stage", "audio_pending")

PersistedStage == StageOf(metaFile)

\* history bookkeeping of one save
Trail(f) ==
    IF StageOf(f) = stageTrail[Len(stageTrail)] THEN stageTrail
    ELSE Append(stageTrail, StageOf(f))

Save(m) ==
    /\ clock' = clock + 1
    /\ metaFile' = save_meta(m, clock + 1)
    /\ stageTrail' = Trail(save_meta(m, clock + 1))

NoSave == UNCHANGED <<metaFile, clock, stageTrail>>

(***************************************************************************)
(* full_auto.run: the guards of its five steps and the dispatch between    *)
(* them.  The local `stage` is re-read only inside a taken branch, so the  *)
(* steps after step i are tried in order with the same value.              *)
(***************************************************************************)
\* a step-1 guard that also takes a later stage
Step1StagesWithCaptionsDone ==
    {"init", "audio_pending", "audio_done", "captions_done"}

Step1Stages == {"init", "audio_pending", "audio_done"}

Step2Stages == {"captions_verified", "captions_done"}

Step3Stages == {"description_done"}

\* a step-4 guard that misspells the stage name
Step4StagesMisspelt == {"translate"}

Step4Stages == {"translated"}

\* a step-5 guard that also takes the terminal stage
Step5StagesWithTerminal == {"captions_translated", "tts_done"}

Step5Stages == {"captions_translated"}

Dispatch(from, s) ==
    IF from <= 1 /\ s \in Step1Stages THEN "extract"
    ELSE IF from <= 2 /\ s \in Step2Stages THEN "desc"
    ELSE IF from <= 3 /\ s \in Step3Stages THEN "translate"
    ELSE IF from <= 4 /\ s \in Step4Stages THEN "captions"
    ELSE IF s \in Step5Stages THEN "tts"
    ELSE "stopped"

(***************************************************************************)
(* Initial state: a fresh asset.  No metadata record and no pipeline       *)
(* output exists; the user may have put an English captions file beside    *)
(* the video.                                                              *)
(***************************************************************************)
NoEntry == [op |-> "none", missing |-> FALSE, meta |-> [kind |-> "absent", data |-> EmptyDict]]

\* a fresh asset: the video, and possibly captions supplied by the user
AssetInit ==
    /\ metaFile = [kind |-> "absent", data |-> EmptyDict]
    /\ audioFile = FALSE
    /\ captionsDir \in BOOLEAN
    /\ srt \in {[c \in Codes |-> IF c = SOURCE_LANGUAGE_CODE THEN u ELSE "none"] :
                    u \in IF captionsDir THEN {"none", "user"} ELSE {"none"}}
    /\ descDir = FALSE
    /\ td = [c \in Codes |-> "none"]
    /\ tts = {}
    /\ pc = "idle"
    /\ stage = "audio_pending"
    /\ dataLang = SOURCE_LANGUAGE_CODE
    /\ dataCaptions = FALSE
    /\ procMeta = EmptyDict
    /\ tdLang = SOURCE_LANGUAGE_CODE
    /\ prefCode = SOURCE_LANGUAGE_CODE
    /\ workers = EmptyDict
    /\ results = EmptyDict
    /\ clock = 0
    /\ runs = 0
    /\ startStage = "audio_pending"
    /\ metaAtStart = metaFile
    /\ effects = {}
    /\ written = {}
    /\ prevWritten = {}
    /\ halt = "none"
    /\ prevHalt = "none"
    /\ lastRejected = "none"
    /\ stageEntry = NoEntry
    /\ stageTrail = <<"audio_pending">>
    /\ chatOut = EmptyDict

\* no retry call in progress
RetryOff ==
    [variant |-> "none", max |-> 0, init |-> 0, pc |-> "off", attempt |-> 0,
     delay |-> 0, waits |-> <<>>, calls |-> 0, value |-> "none"]

\* no command at work on the record
StoreOff ==
    [pc |-> "idle", pending |-> [kind |-> "absent", data |-> EmptyDict],
     loaded |-> "none", ops |-> 0, error |-> "none", kbArg |-> "unset"]

\* the two processes of the concurrent-run model
Procs == {1, 2}

\* neither has been started
ProcsOff == [p \in Procs |-> [pc |-> "ready"]]

\* paths.DEFAULT_KB_DIR
DEFAULT_KB_DIR == "knowledge/default"

\* the knowledge directories an asset's record can resolve to
KbDirs == {DEFAULT_KB_DIR, "/kb"}

\* store.DATA_ROOT / kb_dir.name
LocalPaths == {"data/kb/default", "data/kb/kb"}

\* the directories a chroma PersistentClient is opened at
Locations == KbDirs \cup LocalPaths

\* no build_index call in progress
NoBuild ==
    [active |-> FALSE, op |-> "none", dir |-> "none", id |-> 0, docs |-> {},
     pending |-> {}, before |-> {}]

\* no build command has run
NoBuildOp ==
    [op |-> "none", dir |-> "none", count |-> 0, issued |-> FALSE,
     docs |-> {}, status |-> "none"]

\* no read of an index has run
NoRead ==
    [op |-> "none", dir |-> "none", seen |-> {}, written |-> {},
     during |-> FALSE, before |-> {}, target |-> {}]

\* no knowledge directory in use
KbOff ==
    [pc |-> "off",
     files |-> [d \in KbDirs |-> {}],
     storeFile |-> [d \in KbDirs |-> FALSE],
     coll |-> [l \in Locations |-> {}],
     written |-> [d \in KbDirs |-> {}],
     builds |-> 0,
     building |-> NoBuild,
     last |-> NoBuildOp,
     read |-> NoRead]

\* description.process not running
GenOff ==
    [pc |-> "off", stage |-> "none", description |-> "none",
     title |-> "none", hashtags |-> "none", tdWritten |-> FALSE,
     aborted |-> FALSE, confirmed |-> FALSE]

\* no directory being loaded
LoaderOff ==
    [pc |-> "off", files |-> {}, listing |-> <<>>, op |-> "none",
     docs |-> <<>>, prevOp |-> "none", prev |-> <<>>]

\* no call of inject_context or retrieve in progress
InjectOff ==
    [pc |-> "off", op |-> "none", task |-> "general", prompt |-> <<>>,
     topK |-> 0, kbName |-> "None", coll |-> {}, nodes |-> {},
     result |-> "none", context |-> {}, text |-> <<>>, failed |-> "none"]

Init ==
    /\ AssetInit
    /\ retry = RetryOff
    /\ store = StoreOff
    /\ procs = ProcsOff
    /\ inject = InjectOff
    /\ index = KbOff
    /\ loader = LoaderOff
    /\ gen = GenOff

(***************************************************************************)
(* End of a run: the process exits (return, sys.exit or an exception).     *)
(***************************************************************************)
Exit(how) ==
    /\ pc' = "idle"
    /\ halt' = how

\* run resumes after a stage function returned: reload and dispatch
Reload(f, from, default) ==
    /\ stage' = Get(LoadMetaFrom(f, "video"), "stage", default)
    /\ pc' = Dispatch(from, stage')

(***************************************************************************)
(* full_auto.run, lines 20-26: load the record and pick the first step.    *)
(***************************************************************************)
StartRun ==
    /\ pc = "idle"
    /\ runs < MaxRuns
    /\ stage' = Get(load_meta("video"), "stage", "audio_pending")
    /\ pc' = Dispatch(1, stage')
    /\ runs' = runs + 1
    /\ startStage' = stage'
    /\ metaAtStart' = metaFile
    /\ effects' = {}
    /\ prevWritten' = written
    /\ written' = {}
    /\ prevHalt' = halt
    /\ halt' = "running"
    /\ stageEntry' = [NoEntry EXCEPT !.meta = metaFile]
    /\ UNCHANGED <<fsVars, dataLang, dataCaptions, procMeta, tdLang, prefCode,
                   workers, results, clock, lastRejected, stageTrail>>
    /\ UNCHANGED <<chatOut, sideVars>>

\* full_auto.run, lines 64-65: nothing left to do for this stage value
Stopped ==
    /\ pc = "stopped"
    /\ Exit("stopped")
    /\ UNCHANGED <<fsVars, stage, dataLang, dataCaptions, procMeta, tdLang,
                   prefCode, workers, results, clock, runs, startStage,
                   metaAtStart, effects, written, prevWritten, prevHalt,
                   lastRejected, stageEntry, stageTrail>>
    /\ UNCHANGED <<chatOut, sideVars>>

(***************************************************************************)
(* audio.extract_audio                                                     *)
(***************************************************************************)
ExtractAudio ==
    /\ pc = "extract"
    /\ audioFile' = TRUE
    /\ Save(Put(load_meta("video"), "stage", "audio_done"))
    /\ pc' = "whisper"
    /\ effects' = effects \cup {"extract_audio"}
    /\ written' = written \cup {<<"mp3", "-">>}
    /\ UNCHANGED <<captionsDir, srt, descDir, td, tts, stage, dataLang,
                   dataCaptions, procMeta, tdLang, prefCode, workers, results,
                   runs, startStage, metaAtStart, prevWritten, halt, prevHalt,
                   lastRejected, stageEntry>>
    /\ UNCHANGED <<chatOut, sideVars>>

\* ffmpeg exits non-zero: subprocess.run(check=True) raises out of run
ExtractAudioFails ==
    /\ pc = "extract"
    /\ Exit("crashed")
    /\ UNCHANGED <<fsVars, stage, dataLang, dataCaptions, procMeta, tdLang,
                   prefCode, workers, results, clock, runs, startStage,
                   metaAtStart, effects, written, prevWritten, prevHalt,
                   lastRejected, stageEntry, stageTrail>>
    /\ UNCHANGED <<chatOut, sideVars>>

(***************************************************************************)
(* audio.generate_captions                                                 *)
(***************************************************************************)
DetectedLanguages == {"en", "unknown"}

GenerateCaptions ==
    /\ pc = "whisper"
    /\ \E lang \in DetectedLanguages :
         Save(Put(Put(load_meta("audio"), "stage", "captions_done"),
                  "detected_language", lang))
    /\ captionsDir' = TRUE
    /\ srt' = [srt EXCEPT ![WHISPER_SRT_CODE] = "whisper"]
    /\ pc' = "verify"
    /\ effects' = effects \cup {"generate_captions"}
    /\ written' = written \cup {<<"srt", WHISPER_SRT_CODE>>}
    /\ UNCHANGED <<audioFile, descDir, td, tts, stage, dataLang, dataCaptions,
                   procMeta, tdLang, prefCode, workers, results, runs,
                   startStage, metaAtStart, prevWritten, halt, prevHalt,
                   lastRejected, stageEntry>>
    /\ UNCHANGED <<chatOut, sideVars>>

\* whisper.load_model or model.transcribe raises out of run
GenerateCaptionsFails ==
    /\ pc = "whisper"
    /\ Exit("crashed")
    /\ UNCHANGED <<fsVars, stage, dataLang, dataCaptions, procMeta, tdLang,
                   prefCode, workers, results, clock, runs, startStage,
                   metaAtStart, effects, written, prevWritten, prevHalt,
                   lastRejected, stageEntry, stageTrail>>
    /\ UNCHANGED <<chatOut, sideVars>>

(***************************************************************************)
(* audio.verify: the caption checkpoint                                    *)
(***************************************************************************)
\* len(confirmed_srt.splitlines()) of a captions file
LineCount(content) == IF content = "none" THEN 0 ELSE 4

Verify(answer) ==
    /\ pc = "verify"
    /\ stageEntry' = [op |-> "verify",
                      missing |-> srt[WHISPER_SRT_CODE] = "none",
                      meta |-> metaFile]
    /\ IF srt[WHISPER_SRT_CODE] = "none"
       THEN /\ Exit("missing_artifact")
            /\ NoSave
            /\ UNCHANGED <<stage, effects, lastRejected>>
       ELSE IF ~answer
       THEN /\ Exit("rejected_captions")
            /\ NoSave
            /\ lastRejected' = "captions"
            /\ effects' = effects \cup {"verify"}
            /\ UNCHANGED stage
       ELSE /\ Save(Put(Put(load_meta("video"), "stage", "captions_verified"),
                        "verified_caption_length",
                        LineCount(srt[WHISPER_SRT_CODE])))
            /\ Reload(metaFile', 2, "captions_verified")
            /\ lastRejected' = IF lastRejected = "captions" THEN "none"
                               ELSE lastRejected
            /\ effects' = effects \cup {"verify"}
            /\ UNCHANGED halt
    /\ UNCHANGED <<audioFile, captionsDir, srt, descDir, td, tts, dataLang,
                   dataCaptions, procMeta, tdLang, prefCode, workers, results,
                   runs, startStage, metaAtStart, written, prevWritten,
                   prevHalt>>
    /\ UNCHANGED <<chatOut, sideVars>>

VerifyCaptions == \E answer \in BOOLEAN : Verify(answer)

(***************************************************************************)
(* description.process: load_inputs, generation, save_td, the title and    *)
(* description checkpoint                                                  *)
(***************************************************************************)
ExistingSrt == {c \in Codes : srt[c] # "none"}

\* load_inputs, lines 238-254: the language codes data.lang_code can take.
\* glob() yields the files in directory order, so alt_srts[0] is any of them.
LoadInputsLangs ==
    IF captionsDir /\ srt[SOURCE_LANGUAGE_CODE] = "none" /\ ExistingSrt # {}
    THEN ExistingSrt
    ELSE {SOURCE_LANGUAGE_CODE}

\* load_inputs, lines 252-253: captions were read from the chosen file
CaptionsLoaded(lang) == captionsDir /\ srt[lang] # "none"

\* process, lines 449-473: inputs, knowledge base, description, title, hashtags
GenerateTD ==
    /\ pc = "desc"
    /\ \E lang \in LoadInputsLangs :
         /\ dataLang' = lang
         /\ dataCaptions' = CaptionsLoaded(lang)
         /\ stageEntry' = [op |-> "description",
                           missing |-> ~CaptionsLoaded(lang),
                           meta |-> metaFile]
    /\ pc' = "save_td"
    /\ effects' = effects \cup {"generate_td"}
    /\ UNCHANGED <<fsVars, stage, procMeta, tdLang, prefCode, workers, results,
                   clock, runs, startStage, metaAtStart, written, prevWritten,
                   halt, prevHalt, lastRejected, stageTrail>>
    /\ UNCHANGED <<chatOut, sideVars>>

\* generate_description or generate_title raises (chat_with_retries gave up):
\* the exception leaves process and run
GenerateTDFails ==
    /\ pc = "desc"
    /\ \E lang \in LoadInputsLangs :
         stageEntry' = [op |-> "description",
                        missing |-> ~CaptionsLoaded(lang),
                        meta |-> metaFile]
    /\ Exit("crashed")
    /\ effects' = effects \cup {"generate_td"}
    /\ UNCHANGED <<fsVars, stage, dataLang, dataCaptions, procMeta, tdLang,
                   prefCode, workers, results, clock, runs, startStage,
                   metaAtStart, written, prevWritten, prevHalt, lastRejected,
                   stageTrail>>
    /\ UNCHANGED <<chatOut, sideVars>>

\* the value save_td persists as the stage
SaveTdStageOldName == "title_description"

SaveTdStage == "description_done"

\* save_td, lines 496-523: write td.<lang>.txt, then update the record
SaveTd ==
    /\ pc = "save_td"
    /\ descDir' = TRUE
    /\ td' = [td EXCEPT ![dataLang] = "draft"]
    /\ Save(Update(load_meta("video"),
                   [stage |-> SaveTdStage,
                    td_lang |-> dataLang,
                    td_file |-> <<"td", dataLang>>]))
    /\ pc' = "confirm_td"
    /\ written' = written \cup {<<"td", dataLang>>}
    /\ UNCHANGED <<audioFile, captionsDir, srt, tts, stage, dataLang,
                   dataCaptions, procMeta, tdLang, prefCode, workers, results,
                   runs, startStage, metaAtStart, effects, prevWritten, halt,
                   prevHalt, lastRejected, stageEntry>>
    /\ UNCHANGED <<chatOut, sideVars>>

\* process, lines 484-491: confirm("Is the title & description correct?")
ConfirmTD(answer) ==
    /\ pc = "confirm_td"
    /\ IF ~answer
       THEN /\ Exit("rejected_td")
            /\ lastRejected' = "td"
            /\ UNCHANGED stage
       ELSE /\ Reload(metaFile, 3, "description_done")
            /\ lastRejected' = IF lastRejected = "td" THEN "none"
                               ELSE lastRejected
            /\ UNCHANGED halt
    /\ UNCHANGED <<fsVars, dataLang, dataCaptions, procMeta, tdLang, prefCode,
                   workers, results, clock, runs, startStage, metaAtStart,
                   effects, written, prevWritten, prevHalt, stageEntry,
                   stageTrail>>
    /\ UNCHANGED <<chatOut, sideVars>>

ConfirmTitleDescription == \E answer \in BOOLEAN : ConfirmTD(answer)

(***************************************************************************)
(* The fan-out pool shared by translate.process and captions.process:      *)
(* ThreadPoolExecutor(max_workers=CONCURRENCY), one future per language.   *)
(***************************************************************************)
\* what chat_with_retries gives a worker: text, empty text, or an exception
ChatOutcomes == {"text", "empty", "raise"}

\* translate_one (translate.py and captions.py alike): True once the text is
\* written; an exception of the call and an empty text are caught and give
\* False
WorkerReturnsTrueOnEmpty(out) == out # "raise"

WorkerReturns(out) == out = "text"

\* translate_one: write_text(out_path, translated) is reached only after
\* chat_with_retries returned and the empty-text check passed
WritesOutputWhenNoError(out) == out # "raise"

WritesOutput(out) == out = "text"

Running == {c \in DOMAIN workers : workers[c] = "running"}

\* for fut in cf.as_completed(futures): the loop ends when every future has
\* completed
SomeDone == \E c \in DOMAIN workers : workers[c] = "done"

AllDone == \A c \in DOMAIN workers : workers[c] = "done"

\* a pool thread picks up a queued future
PoolStart ==
    /\ pc \in {"translate_pool", "captions_pool"}
    /\ Cardinality(Running) < CONCURRENCY
    /\ \E c \in DOMAIN workers :
         /\ workers[c] = "queued"
         /\ workers' = [workers EXCEPT ![c] = "running"]
    /\ UNCHANGED <<fsVars, pc, stage, dataLang, dataCaptions, procMeta, tdLang,
                   prefCode, results, histVars>>
    /\ UNCHANGED <<chatOut, sideVars>>

(***************************************************************************)
(* translate.process and its worker translate.translate_one                *)
(***************************************************************************)
ExistingTd == {c \in Codes : td[c] # "none"}

\* process, lines 110-129: the base file, or the fallback search
BaseTdLangs(m) ==
    IF td[Get(m, "td_lang", SOURCE_LANGUAGE_CODE)] # "none"
    THEN {Get(m, "td_lang", SOURCE_LANGUAGE_CODE)}
    ELSE ExistingTd

TranslateStart ==
    /\ pc = "translate"
    /\ stageEntry' = [op |-> "translate",
                      missing |-> BaseTdLangs(load_meta("video")) = {},
                      meta |-> metaFile]
    /\ IF BaseTdLangs(load_meta("video")) = {}
       THEN /\ Exit("missing_artifact")
            /\ UNCHANGED <<procMeta, tdLang, workers, results, effects,
                           chatOut>>
       ELSE /\ procMeta' = load_meta("video")
            /\ tdLang' \in BaseTdLangs(load_meta("video"))
            /\ workers' = [c \in TARGET_LANGUAGES |-> "queued"]
            /\ results' = EmptyDict
            /\ chatOut' = EmptyDict
            /\ pc' = "translate_pool"
            /\ effects' = effects \cup {"translate_td"}
            /\ UNCHANGED halt
    /\ UNCHANGED <<fsVars, stage, dataLang, dataCaptions, prefCode, clock,
                   runs, startStage, metaAtStart, written, prevWritten,
                   prevHalt, lastRejected, stageTrail>>
    /\ UNCHANGED sideVars

\* translate_one, lines 85-99
TranslateOne ==
    /\ pc = "translate_pool"
    /\ \E c \in DOMAIN workers, out \in ChatOutcomes :
         /\ workers[c] = "running"
         /\ workers' = [workers EXCEPT ![c] = "done"]
         /\ results' = Put(results, c, WorkerReturns(out))
         /\ chatOut' = Put(chatOut, c, out)
         /\ IF WritesOutput(out)
            THEN /\ td' = [td EXCEPT ![c] = "translated"]
                 /\ written' = written \cup {<<"td", c>>}
            ELSE UNCHANGED <<td, written>>
    /\ UNCHANGED <<metaFile, audioFile, captionsDir, srt, descDir, tts, pc,
                   stage, dataLang, dataCaptions, procMeta, tdLang, prefCode,
                   clock, runs, startStage, metaAtStart, effects, prevWritten,
                   halt, prevHalt, lastRejected, stageEntry, stageTrail>>
    /\ UNCHANGED sideVars

\* process, lines 142-155: every future is collected, then the record is saved
TranslateSave ==
    /\ pc = "translate_pool"
    /\ AllDone
    /\ Save(Put(Put(Put(procMeta, "stage", "translated"),
                    "translations", OutcomeMap(results)),
                "translated_from", tdLang))
    /\ Reload(metaFile', 4, "translated")
    /\ UNCHANGED <<audioFile, captionsDir, srt, descDir, td, tts, dataLang,
                   dataCaptions, procMeta, tdLang, prefCode, workers, results,
                   runs, startStage, metaAtStart, effects, written,
                   prevWritten, halt, prevHalt, lastRejected, stageEntry>>
    /\ UNCHANGED <<chatOut, sideVars>>

(***************************************************************************)
(* captions.process and its worker captions.translate_one                  *)
(***************************************************************************)
\* process, lines 128-146: the source file and the code recorded for it
BaseSrtCode ==
    IF SOURCE_LANGUAGE_CODE \in ExistingSrt THEN SOURCE_LANGUAGE_CODE
    ELSE SortedFirst(ExistingSrt)

CaptionsStart ==
    /\ pc = "captions"
    /\ stageEntry' = [op |-> "captions",
                      missing |-> (~captionsDir \/ ExistingSrt = {}),
                      meta |-> metaFile]
    /\ IF ~captionsDir \/ ExistingSrt = {}
       THEN /\ Exit("missing_artifact")
            /\ UNCHANGED <<prefCode, workers, results, effects, chatOut>>
       ELSE /\ prefCode' = BaseSrtCode
            /\ workers' = [c \in TARGET_LANGUAGES |-> "queued"]
            /\ results' = EmptyDict
            /\ chatOut' = EmptyDict
            /\ pc' = "captions_pool"
            /\ effects' = effects \cup {"translate_captions"}
            /\ UNCHANGED halt
    /\ UNCHANGED <<fsVars, stage, dataLang, dataCaptions, procMeta, tdLang,
                   clock, runs, startStage, metaAtStart, written, prevWritten,
                   prevHalt, lastRejected, stageTrail>>
    /\ UNCHANGED sideVars

\* translate_one, lines 88-102
CaptionTranslateOne ==
    /\ pc = "captions_pool"
    /\ \E c \in DOMAIN workers, out \in ChatOutcomes :
         /\ workers[c] = "running"
         /\ workers' = [workers EXCEPT ![c] = "done"]
         /\ results' = Put(results, c, WorkerReturns(out))
         /\ chatOut' = Put(chatOut, c, out)
         /\ IF WritesOutput(out)
            THEN /\ srt' = [srt EXCEPT ![c] = "translated"]
                 /\ written' = written \cup {<<"srt", c>>}
            ELSE UNCHANGED <<srt, written>>
    /\ UNCHANGED <<metaFile, audioFile, captionsDir, descDir, td, tts, pc,
                   stage, dataLang, dataCaptions, procMeta, tdLang, prefCode,
                   clock, runs, startStage, metaAtStart, effects, prevWritten,
                   halt, prevHalt, lastRejected, stageEntry, stageTrail>>
    /\ UNCHANGED sideVars

\* process, lines 166-181
CaptionsSave ==
    /\ pc = "captions_pool"
    /\ AllDone
    /\ Save(Put(Put(Put(load_meta("video"), "stage", "captions_translated"),
                    "caption_source_lang", prefCode),
                "caption_translations", OutcomeMap(results)))
    /\ Reload(metaFile', 5, "captions_translated")
    /\ UNCHANGED <<audioFile, captionsDir, srt, descDir, td, tts, dataLang,
                   dataCaptions, procMeta, tdLang, prefCode, workers, results,
                   runs, startStage, metaAtStart, effects, written,
                   prevWritten, halt, prevHalt, lastRejected, stageEntry>>
    /\ UNCHANGED <<chatOut, sideVars>>

(***************************************************************************)
(* tts.process                                                             *)
(***************************************************************************)
\* the languages for which the loop of lines 170-206 can produce a narration:
\* the captions file exists and get_pipe knows the language
Narratable == {c \in TARGET_LANGUAGES :
                 /\ srt[c] # "none"
                 /\ c \notin UNSUPPORTED_LANGS
                 /\ c \in LANG_MAP_KEYS}

\* the value tts.process persists as the stage
TtsStage == "tts_done"

Narrate ==
    /\ pc = "tts"
    /\ IF ~captionsDir
       THEN /\ NoSave
            /\ UNCHANGED <<tts, effects, written>>
       ELSE \E ok \in SUBSET Narratable :
              /\ tts' = tts \cup ok
              /\ written' = written \cup {<<"tts", c>> : c \in ok}
              /\ effects' = effects \cup {"tts"}
              /\ Save(Put(Put(load_meta("video"), "stage", TtsStage),
                          "tts_from_captions",
                          Update(Get(load_meta("video"), "tts_from_captions",
                                     EmptyDict),
                                 OutcomeMap([c \in TARGET_LANGUAGES |->
                                                c \in ok]))))
    /\ Exit("finished")
    /\ UNCHANGED <<audioFile, captionsDir, srt, descDir, td, stage, dataLang,
                   dataCaptions, procMeta, tdLang, prefCode, workers, results,
                   runs, startStage, metaAtStart, prevWritten, prevHalt,
                   lastRejected, stageEntry>>
    /\ UNCHANGED <<chatOut, sideVars>>

(***************************************************************************)
(* The user, between two runs: removes the captions or the description     *)
(* directory.                                                              *)
(***************************************************************************)
DeleteCaptions ==
    /\ pc = "idle"
    /\ runs < MaxRuns
    /\ captionsDir
    /\ captionsDir' = FALSE
    /\ srt' = [c \in Codes |-> "none"]
    /\ UNCHANGED <<metaFile, audioFile, descDir, td, tts, runVars, histVars>>
    /\ UNCHANGED <<chatOut, sideVars>>

DeleteDescription ==
    /\ pc = "idle"
    /\ runs < MaxRuns
    /\ descDir
    /\ descDir' = FALSE
    /\ td' = [c \in Codes |-> "none"]
    /\ UNCHANGED <<metaFile, audioFile, captionsDir, srt, tts, runVars,
                   histVars>>
    /\ UNCHANGED <<chatOut, sideVars>>

Next ==
    \/ StartRun
    \/ Stopped
    \/ ExtractAudio
    \/ ExtractAudioFails
    \/ GenerateCaptions
    \/ GenerateCaptionsFails
    \/ VerifyCaptions
    \/ GenerateTD
    \/ GenerateTDFails
    \/ SaveTd
    \/ ConfirmTitleDescription
    \/ PoolStart
    \/ TranslateStart
    \/ TranslateOne
    \/ TranslateSave
    \/ CaptionsStart
    \/ CaptionTranslateOne
    \/ CaptionsSave
    \/ Narrate
    \/ DeleteCaptions
    \/ DeleteDescription

Spec == Init /\ [][Next]_vars

TypeOK ==
    /\ pc \in {"idle", "stopped", "extract", "whisper", "verify", "desc",
               "save_td", "confirm_td", "translate", "translate_pool",
               "captions", "captions_pool", "tts"}
    /\ PersistedStage \in Stages
    /\ runs \in 0..MaxRuns


(***************************************************************************)
(* The pipeline when nothing aborts it: ffmpeg, Whisper and the title and  *)
(* description generation succeed, the user approves both checkpoints and  *)
(* removes nothing.  A fan-out worker or a narration may still fail: that  *)
(* is recorded per language and does not abort the stage.  The process     *)
(* keeps running and the user keeps invoking resume.                       *)
(***************************************************************************)
LiveNext ==
    \/ StartRun
    \/ Stopped
    \/ ExtractAudio
    \/ GenerateCaptions
    \/ Verify(TRUE)
    \/ GenerateTD
    \/ SaveTd
    \/ ConfirmTD(TRUE)
    \/ PoolStart
    \/ TranslateStart
    \/ TranslateOne
    \/ TranslateSave
    \/ CaptionsStart
    \/ CaptionTranslateOne
    \/ CaptionsSave
    \/ Narrate

LiveSpec == Init /\ [][LiveNext]_vars /\ WF_vars(LiveNext)

(***************************************************************************)
(* The retry wrapper: utils.retry, and the copies of it that the stages    *)
(* call (chat_with_retries in description.py, translate.py, captions.py).  *)
(* MAX_RETRIES and INITIAL_BACKOFF_S are read from the environment, so a   *)
(* call is checked for every attempt count and delay up to a bound.  The   *)
(* delay is counted in units of the configured initial delay's grain.      *)
(***************************************************************************)
\* the largest MAX_RETRIES tried
MaxAttempts == 4

\* the largest INITIAL_BACKOFF_S tried
MaxDelay == 3

pipelineVars == <<fsVars, runVars, histVars, chatOut>>

\* everything but the metadata file and the history of its saves
assetVars == <<audioFile, captionsDir, srt, descDir, td, tts, runVars, runs,
               startStage, metaAtStart, effects, written, prevWritten, halt,
               prevHalt, lastRejected, stageEntry, chatOut>>

\* "utils": utils.retry; "stage": a stage's chat_with_retries
RetryVariants == {"utils", "stage"}

\* delay *= 2
BackoffConstant(delay) == delay

Backoff(delay) == delay * 2

\* delay = INITIAL_BACKOFF_S, and range(1, MAX_RETRIES + 1) starts at 1
RetryInit ==
    /\ AssetInit
    /\ ~captionsDir
    /\ retry \in {[variant |-> v, max |-> n, init |-> d, pc |-> "loop",
                   attempt |-> 1, delay |-> d, waits |-> <<>>, calls |-> 0,
                   value |-> "none"] :
                     v \in RetryVariants, n \in 0..MaxAttempts,
                     d \in 0..MaxDelay}
    /\ store = StoreOff
    /\ procs = ProcsOff
    /\ inject = InjectOff
    /\ index = KbOff
    /\ loader = LoaderOff
    /\ gen = GenOff

\* the call of this attempt returns: the wrapper returns its result
RetryCallReturns ==
    /\ retry.pc = "loop"
    /\ retry.attempt <= retry.max
    /\ retry' = [retry EXCEPT !.calls = @ + 1, !.pc = "returned",
                              !.value = "result"]
    /\ UNCHANGED <<pipelineVars, store, procs, inject, index, loader, gen>>

\* the call of this attempt raises: re-raised on the last attempt, else the
\* handler goes on to sleep
RetryCallRaises ==
    /\ retry.pc = "loop"
    /\ retry.attempt <= retry.max
    /\ retry' = [retry EXCEPT !.calls = @ + 1,
                              !.pc = IF retry.attempt = retry.max
                                     THEN "raised" ELSE "sleep"]
    /\ UNCHANGED <<pipelineVars, store, procs, inject, index, loader, gen>>

\* time.sleep(delay); delay *= 2; the next attempt
RetrySleep ==
    /\ retry.pc = "sleep"
    /\ retry' = [retry EXCEPT !.waits = Append(@, retry.delay),
                              !.delay = Backoff(@),
                              !.attempt = @ + 1,
                              !.pc = "loop"]
    /\ UNCHANGED <<pipelineVars, store, procs, inject, index, loader, gen>>

\* the range is exhausted without a return or a raise: utils.retry falls off
\* its end and returns None; a stage's copy raises RuntimeError
RetryLoopEnds ==
    /\ retry.pc = "loop"
    /\ retry.attempt > retry.max
    /\ retry' = IF retry.variant = "utils"
                THEN [retry EXCEPT !.pc = "returned", !.value = "None"]
                ELSE [retry EXCEPT !.pc = "raised"]
    /\ UNCHANGED <<pipelineVars, store, procs, inject, index, loader, gen>>

RetryNext ==
    \/ RetryCallReturns
    \/ RetryCallRaises
    \/ RetrySleep
    \/ RetryLoopEnds

RetrySpec == RetryInit /\ [][RetryNext]_vars

\* the wrapper as a function of its inputs: the call succeeds at attempt
\* successAt (0: at no attempt); what the wrapper ends in, the number of
\* calls made and the delays waited
RECURSIVE RunWrapper(_, _, _, _, _, _)
RunWrapper(variant, max, attempt, delay, waits, successAt) ==
    IF attempt > max
    THEN IF variant = "utils"
         THEN [pc |-> "returned", value |-> "None", calls |-> attempt - 1,
               waits |-> waits]
         ELSE [pc |-> "raised", value |-> "none", calls |-> attempt - 1,
               waits |-> waits]
    ELSE IF attempt = successAt
    THEN [pc |-> "returned", value |-> "result", calls |-> attempt,
          waits |-> waits]
    ELSE IF attempt = max
    THEN [pc |-> "raised", value |-> "none", calls |-> attempt,
          waits |-> waits]
    ELSE RunWrapper(variant, max, attempt + 1, Backoff(delay),
                    Append(waits, delay), successAt)

(***************************************************************************)
(* The knowledge-base setting of an asset (kb/query.py, `vaio kb set`).    *)
(***************************************************************************)
\* what `kb set` can store: None (JSON null) or the resolved directory
KnowledgeValues == {"null", "/kb"}

\* the number of `kb set` commands in one behaviour
MaxKbSets == 1

\* set_kb_dir_for_video: load, set `knowledge`, save
set_kb_dir_for_videoFresh(f, kb, now) ==
    save_meta(Put([file |-> "video", stage |-> "audio_pending"],
                  "knowledge", kb), now)

set_kb_dir_for_video(f, kb, now) ==
    save_meta(Put(LoadMetaFrom(f, "video"), "knowledge", kb), now)

\* what the user can pass as --knowledge: a spelling of none or null, or a
\* directory (given here by its resolved path)
KnowledgeArgs == {"none", "NULL", "/kb"}

\* knowledge.strip().lower(), on the arguments above
StripLower(arg) == IF arg = "NULL" THEN "null" ELSE arg

\* set_cmd: the value handed to set_kb_dir_for_video, as it is stored: None
\* (JSON null) for none and null, else str(Path(knowledge).resolve())
SetCmdValue(arg) ==
    IF StripLower(arg) \in {"none", "null"} THEN "null" ELSE arg

\* `vaio kb set`, run while no resume invocation is in progress
SetKnowledge ==
    /\ pc = "idle"
    /\ store.ops < MaxKbSets
    /\ \E arg \in KnowledgeArgs :
         /\ metaFile' = set_kb_dir_for_video(metaFile, SetCmdValue(arg),
                                             clock + 1)
         /\ stageTrail' = Trail(set_kb_dir_for_video(metaFile,
                                                     SetCmdValue(arg),
                                                     clock + 1))
         /\ store' = [store EXCEPT !.ops = @ + 1, !.kbArg = arg]
    /\ clock' = clock + 1
    /\ UNCHANGED <<assetVars, retry, procs, inject, index, loader, gen>>

\* every operation that saves the record, on one asset: the pipeline's steps
\* (the steps that abort a run save nothing) and `kb set`
KbNext ==
    \/ LiveNext
    \/ SetKnowledge

KbSpec == Init /\ [][KbNext]_vars

(***************************************************************************)
(* The metadata file on its own: a command that saves the record (here     *)
(* `kb set`), the process dying while it saves, another process loading    *)
(* the record at any moment, and something else leaving a file that is     *)
(* not a record.  Path.write_text opens the file for writing, which        *)
(* empties it, and then writes the text: two steps.                        *)
(***************************************************************************)
\* the number of commands and foreign writes in one behaviour
MaxStoreOps == 3

\* a JSON value that parses and is not an object: the list ["junk"], as the
\* function from its one index
JsonList == [i \in {"0"} |-> "junk"]

\* what something other than save_meta can leave in the file
ForeignFiles ==
    {[kind |-> "corrupt", data |-> EmptyDict],
     [kind |-> "nondict", data |-> JsonList]}

\* open(path, "w") of write_text: the file exists and is empty
Truncated == [kind |-> "partial", data |-> EmptyDict]

StoreInit ==
    /\ AssetInit
    /\ ~captionsDir
    /\ retry = RetryOff
    /\ store = StoreOff
    /\ procs = ProcsOff
    /\ inject = InjectOff
    /\ index = KbOff
    /\ loader = LoaderOff
    /\ gen = GenOff

\* set_kb_dir_for_video up to the opening of the file.  On a value that is
\* not a dict the item assignment raises TypeError and nothing is written.
KbSetBegin ==
    /\ store.pc = "idle"
    /\ store.ops < MaxStoreOps
    /\ IF metaFile.kind = "nondict"
       THEN /\ store' = [store EXCEPT !.ops = @ + 1, !.error = "TypeError"]
            /\ UNCHANGED <<metaFile, clock>>
       ELSE \E kb \in KnowledgeValues :
              /\ store' = [store EXCEPT
                             !.ops = @ + 1,
                             !.pc = "writing",
                             !.error = "none",
                             !.pending = set_kb_dir_for_video(metaFile, kb,
                                                              clock + 1)]
              /\ metaFile' = Truncated
              /\ clock' = clock + 1
    /\ UNCHANGED <<assetVars, stageTrail, retry, procs, inject, index, loader, gen>>

\* the text is written and the file closed
KbSetEnd ==
    /\ store.pc = "writing"
    /\ metaFile' = store.pending
    /\ stageTrail' = Trail(store.pending)
    /\ store' = [store EXCEPT !.pc = "idle"]
    /\ UNCHANGED <<assetVars, clock, retry, procs, inject, index, loader, gen>>

\* the process is killed between the two steps
CrashInSave ==
    /\ store.pc = "writing"
    /\ store' = [store EXCEPT !.pc = "idle", !.error = "killed"]
    /\ UNCHANGED <<pipelineVars, retry, procs, inject, index, loader, gen>>

\* another process calls load_meta
ConcurrentLoad ==
    /\ store' = [store EXCEPT !.loaded = metaFile.kind]
    /\ UNCHANGED <<pipelineVars, retry, procs, inject, index, loader, gen>>

\* the file is replaced by something that is not a record
CorruptMeta ==
    /\ store.pc = "idle"
    /\ store.ops < MaxStoreOps
    /\ metaFile' \in ForeignFiles
    /\ store' = [store EXCEPT !.ops = @ + 1]
    /\ UNCHANGED <<assetVars, clock, stageTrail, retry, procs,
                   inject, index, loader, gen>>

StoreNext ==
    \/ KbSetBegin
    \/ KbSetEnd
    \/ CrashInSave
    \/ ConcurrentLoad
    \/ CorruptMeta

StoreSpec == StoreInit /\ [][StoreNext]_vars

(***************************************************************************)
(* Two resume invocations (full_auto.run) on one asset, as two operating-  *)
(* system processes.  Each is the run of the pipeline above with a stage   *)
(* function as one step: what matters here is where each process is and    *)
(* what it saves.  run takes no lock and looks for no other run: it loads  *)
(* the record and starts on the step the stage selects.                    *)
(***************************************************************************)
\* the stage functions run calls in order: the stage each one saves when it
\* succeeds, and where run goes next (a number: reload the record and
\* dispatch from that step on)
StageFunctions ==
    [extract    |-> [saves |-> "audio_done",          next |-> "whisper"],
     whisper    |-> [saves |-> "captions_done",       next |-> "verify"],
     verify     |-> [saves |-> "captions_verified",   next |-> "2"],
     desc       |-> [saves |-> SaveTdStage,           next |-> "confirm_td"],
     translate  |-> [saves |-> "translated",          next |-> "4"],
     captions   |-> [saves |-> "captions_translated", next |-> "5"],
     tts        |-> [saves |-> TtsStage,              next |-> "exited"]]

StepNumber == [x \in {"2", "3", "4", "5"} |->
                 IF x = "2" THEN 2 ELSE IF x = "3" THEN 3
                 ELSE IF x = "4" THEN 4 ELSE 5]

\* positions at which a process is inside the pipeline
AtWork == (DOMAIN StageFunctions) \cup {"confirm_td"}

AfterStage(next, f) ==
    IF next \in DOMAIN StepNumber
    THEN Dispatch(StepNumber[next], StageOf(f))
    ELSE next

TwoRunInit ==
    /\ AssetInit
    /\ ~captionsDir
    /\ retry = RetryOff
    /\ store = StoreOff
    /\ procs = ProcsOff
    /\ inject = InjectOff
    /\ index = KbOff
    /\ loader = LoaderOff
    /\ gen = GenOff

\* full_auto.run, lines 20-26
ProcStart(p) ==
    /\ procs[p].pc = "ready"
    /\ procs' = [procs EXCEPT ![p].pc = Dispatch(1, PersistedStage)]
    /\ UNCHANGED <<pipelineVars, retry, store, inject, index, loader, gen>>

\* a stage function succeeds (at a checkpoint: the user approves) and saves
ProcStage(p) ==
    /\ procs[p].pc \in DOMAIN StageFunctions
    /\ Save(Put(load_meta("video"), "stage",
                StageFunctions[procs[p].pc].saves))
    /\ procs' = [procs EXCEPT ![p].pc =
                    AfterStage(StageFunctions[procs[p].pc].next, metaFile')]
    /\ UNCHANGED <<assetVars, retry, store, inject, index, loader, gen>>

\* description.process, lines 486-491: the title and description are approved
ProcConfirm(p) ==
    /\ procs[p].pc = "confirm_td"
    /\ procs' = [procs EXCEPT ![p].pc = AfterStage("3", metaFile)]
    /\ UNCHANGED <<pipelineVars, retry, store, inject, index, loader, gen>>

\* the process ends: a checkpoint is rejected (sys.exit), or run has nothing
\* left to do
ProcExit(p) ==
    /\ procs[p].pc \in {"verify", "confirm_td", "stopped"}
    /\ procs' = [procs EXCEPT ![p].pc = "exited"]
    /\ UNCHANGED <<pipelineVars, retry, store, inject, index, loader, gen>>

RunStarts == \E p \in Procs : ProcStart(p)

RunWorks == \E p \in Procs : ProcStage(p)

RunConfirmed == \E p \in Procs : ProcConfirm(p)

RunExits == \E p \in Procs : ProcExit(p)

TwoRunNext ==
    \/ RunStarts
    \/ RunWorks
    \/ RunConfirmed
    \/ RunExits

TwoRunSpec == TwoRunInit /\ [][TwoRunNext]_vars

(***************************************************************************)
(* Retrieval and context injection (kb/query.py): inject_context as the    *)
(* stages call it, with the video path, and retrieve.  One call, step by   *)
(* step; any of the calls it makes into the embedding model and the index  *)
(* may raise.  A chunk of the index is identified by its similarity to     *)
(* the query, in hundredths.  A text is the sequence of its pieces.        *)
(***************************************************************************)
\* getattr(r, "score", None): a candidate without a score
NoScore == -1

\* the candidates the index holds
Candidates == {10, 30, 35, 40, NoScore}

\* metadata["category"] of each chunk
CategoryOf ==
    [c \in Candidates |-> IF c \in {30, 40} THEN "reference" ELSE "marketing"]

\* n.get_content() of each chunk
SnippetText ==
    [c \in Candidates |->
        IF c = 10 THEN "chunk10" ELSE IF c = 30 THEN "chunk30"
        ELSE IF c = 35 THEN "chunk35" ELSE IF c = 40 THEN "chunk40"
        ELSE "chunkNone"]

\* the largest top_k tried (the stages pass 2 and 3)
MaxTopK == 5

\* the longest prompt tried, in pieces
MaxPromptLen == 2

\* the pieces a prompt is made of: ordinary text, and text that looks like
\* the separator inject_context writes
PromptPieces == {"text", "---"}

Prompts == UNION {[1..n -> PromptPieces] : n \in 0..MaxPromptLen}

\* the task argument; "general" stands for None
Tasks == {"title", "desc", "translate", "general"}

\* _resolve_kb_dir_for_video: the values of `knowledge` that switch the
\* knowledge base off ("null" stands for None; False is not written by any
\* command)
KbDisabledValuesWithoutNull == {"none", ""}

KbDisabledValues == {"none", "null", ""}

\* _resolve_kb_dir_for_video, on the loaded record
ResolveKbDirUnsetDisabled(m) ==
    IF Get(m, "knowledge", "") \in KbDisabledValues THEN "None"
    ELSE Get(m, "knowledge", "")

ResolveKbDir(m) ==
    IF Get(m, "knowledge", "__unset__") \in KbDisabledValues THEN "None"
    ELSE IF Get(m, "knowledge", "__unset__") = "__unset__" THEN DEFAULT_KB_DIR
    ELSE Get(m, "knowledge", "__unset__")

\* _filters_for_task: the chunks the filter lets through (title and desc:
\* category = marketing; translate: an empty filter list; no task: no filter)
Filtered(chunks, task) ==
    IF task \in {"title", "desc"}
    THEN {c \in chunks : CategoryOf[c] = "marketing"}
    ELSE chunks

\* a is at least as similar to the query as b, as far as scores tell
AsNear(a, b) == a = NoScore \/ b = NoScore \/ a >= b

\* the k nearest of a set of chunks; every answer the vector store can give
NearestUncut(chunks, k) == {chunks}

Nearest(chunks, k) ==
    {found \in SUBSET chunks :
        /\ Cardinality(found) = IF Cardinality(chunks) < k
                                THEN Cardinality(chunks) ELSE k
        /\ \A a \in found, b \in chunks \ found : AsNear(a, b)}

\* index.as_retriever(similarity_top_k=top_k, filters=filters).retrieve: the
\* filter is part of the query the vector store answers
RetrievedThenFiltered(coll, task, k) ==
    {Filtered(found, task) : found \in Nearest(coll, k)}

Retrieved(coll, task, k) == Nearest(Filtered(coll, task), k)

\* the snippets in the order of the nodes, nearest first
RECURSIVE Snippets(_)
Snippets(nodes) ==
    IF nodes = {} THEN <<>>
    ELSE LET n == CHOOSE x \in nodes : \A y \in nodes : x >= y
         IN  <<SnippetText[n]>> \o Snippets(nodes \ {n})

\* f"## Context (task={task or 'general'})\n"
Header(task) == <<"## Context", task>>

\* f"{header}{context_text}\n\n---\n\n{prompt}"
AugmentedCutShort(task, nodes, prompt) ==
    Header(task) \o Snippets(nodes) \o <<"---">>
        \o SubSeq(prompt, 1, Len(prompt) - 1)

Augmented(task, nodes, prompt) ==
    Header(task) \o Snippets(nodes) \o <<"---">> \o prompt

InjectInit ==
    /\ AssetInit
    /\ ~captionsDir
    /\ retry = RetryOff
    /\ store = StoreOff
    /\ procs = ProcsOff
    /\ inject = [InjectOff EXCEPT !.pc = "ready"]
    /\ index = KbOff
    /\ loader = LoaderOff
    /\ gen = GenOff

\* the call of inject_context, and init_embed_model() on its first line
InjectEmbed ==
    /\ inject.pc = "ready"
    /\ \E k \in 1..MaxTopK, t \in Tasks, p \in Prompts, ok \in BOOLEAN :
         inject' = IF ok
                   THEN [inject EXCEPT !.pc = "resolve", !.op = "inject",
                                       !.topK = k, !.task = t, !.prompt = p]
                   ELSE [inject EXCEPT !.pc = "done", !.op = "inject",
                                       !.topK = k, !.task = t, !.prompt = p,
                                       !.result = "raised",
                                       !.failed = "init_embed_model"]
    /\ UNCHANGED <<pipelineVars, retry, store, procs, index, loader, gen>>

\* lines 249-256: the knowledge base of the video; none: the prompt as it is
InjectResolve ==
    /\ inject.pc = "resolve"
    /\ inject' = IF ResolveKbDir(load_meta("video")) = "None"
                 THEN [inject EXCEPT !.pc = "done", !.result = "prompt",
                                     !.text = inject.prompt]
                 ELSE [inject EXCEPT !.pc = "open_index",
                                     !.kbName = ResolveKbDir(load_meta("video"))]
    /\ UNCHANGED <<pipelineVars, retry, store, procs, index, loader, gen>>

\* line 262: open_index(kb_name) opens whatever collection is stored there;
\* nothing around it catches what it raises
InjectOpenIndex ==
    /\ inject.pc = "open_index"
    /\ \/ \E stored \in SUBSET Candidates :
            inject' = [inject EXCEPT !.pc = "retrieve", !.coll = stored]
       \/ inject' = [inject EXCEPT !.pc = "done", !.result = "raised",
                                   !.failed = "open_index"]
    /\ UNCHANGED <<pipelineVars, retry, store, procs, index, loader, gen>>

\* lines 259-264: the retriever gives the top_k nearest chunks that pass the
\* task's filter, or raises
InjectRetrieve ==
    /\ inject.pc = "retrieve"
    /\ \/ \E found \in Retrieved(inject.coll, inject.task, inject.topK) :
            inject' = [inject EXCEPT !.pc = "format", !.nodes = found]
       \/ inject' = [inject EXCEPT !.pc = "done", !.result = "raised",
                                   !.failed = "retrieve"]
    /\ UNCHANGED <<pipelineVars, retry, store, procs, index, loader, gen>>

\* lines 265-283: no candidate: the prompt as it is; else every candidate's
\* text goes into the context block put before the prompt
InjectFormat ==
    /\ inject.pc = "format"
    /\ inject' = IF inject.nodes = {}
                 THEN [inject EXCEPT !.pc = "done", !.result = "prompt",
                                     !.text = inject.prompt]
                 ELSE [inject EXCEPT !.pc = "done", !.result = "augmented",
                                     !.context = inject.nodes,
                                     !.text = Augmented(inject.task,
                                                        inject.nodes,
                                                        inject.prompt)]
    /\ UNCHANGED <<pipelineVars, retry, store, procs, index, loader, gen>>

\* retrieve(video_path, query, top_k), lines 218-221: a disabled knowledge
\* base gives the empty list
RetrieveCall ==
    /\ inject.pc = "ready"
    /\ \E k \in 1..MaxTopK :
         inject' = IF ResolveKbDir(load_meta("video")) = "None"
                   THEN [inject EXCEPT !.pc = "done", !.op = "retrieve",
                                       !.topK = k, !.result = "list"]
                   ELSE [inject EXCEPT !.pc = "get_index", !.op = "retrieve",
                                       !.topK = k,
                                       !.kbName = ResolveKbDir(load_meta("video"))]
    /\ UNCHANGED <<pipelineVars, retry, store, procs, index, loader, gen>>

\* lines 222-223 and 227-229: get_index inside the try
RetrieveGetIndex ==
    /\ inject.pc = "get_index"
    /\ \/ \E stored \in SUBSET Candidates :
            inject' = [inject EXCEPT !.pc = "query", !.coll = stored]
       \/ inject' = [inject EXCEPT !.pc = "done", !.result = "list",
                                   !.failed = "get_index"]
    /\ UNCHANGED <<pipelineVars, retry, store, procs, index, loader, gen>>

\* lines 224-229: the similarity query inside the try, without a filter
RetrieveQuery ==
    /\ inject.pc = "query"
    /\ \/ \E found \in Retrieved(inject.coll, "general", inject.topK) :
            inject' = [inject EXCEPT !.pc = "done", !.result = "list",
                                     !.nodes = found]
       \/ inject' = [inject EXCEPT !.pc = "done", !.result = "list",
                                   !.failed = "query"]
    /\ UNCHANGED <<pipelineVars, retry, store, procs, index, loader, gen>>

\* `vaio kb set` runs before the call; the call reads the record once
InjectNext ==
    \/ (inject.pc = "ready" /\ SetKnowledge)
    \/ InjectEmbed
    \/ InjectResolve
    \/ InjectOpenIndex
    \/ InjectRetrieve
    \/ InjectFormat
    \/ RetrieveCall
    \/ RetrieveGetIndex
    \/ RetrieveQuery

InjectSpec == InjectInit /\ [][InjectNext]_vars

(***************************************************************************)
(* The knowledge index (kb/store.py, kb/loader.py, kb/query.py): the       *)
(* source files of each knowledge directory, the chroma collection         *)
(* "vaio_kb" persisted at each location, builds and reads.  A chunk is     *)
(* [doc, build]: every build embeds each document anew, under fresh ids.   *)
(* index.written and index.read are history: what the builds of an         *)
(* identity wrote, and what the latest read saw while nothing has been     *)
(* built since.                                                            *)
(***************************************************************************)
\* the most builds tried
MaxBuilds == 2

\* the most source files in a knowledge directory
MaxFiles == 2

\* the file chroma's PersistentClient keeps in the directory it is opened at
ChromaFile == "chroma.sqlite3"

\* the files a knowledge directory may hold
SourceFiles ==
    {".DS_Store", ".gitignore", "cache.db", "poetry.lock", "brand.md",
     "notes.xyz", "blank.txt"}

\* path.name.startswith(".")
StartsWithDot(name) == name \in {".DS_Store", ".gitignore"}

\* path.suffix.lower(); a name that is only a leading dot and letters has none
Suffix(name) ==
    IF name = "cache.db" THEN ".db"
    ELSE IF name = "poetry.lock" THEN ".lock"
    ELSE IF name \in {"brand.md", "reference/guide.md"} THEN ".md"
    ELSE IF name = "notes.xyz" THEN ".xyz"
    ELSE IF name = "blank.txt" THEN ".txt"
    ELSE IF name = ChromaFile THEN ".sqlite3"
    ELSE ""

\* read_file(p).strip() is empty
Blank(name) == name = "blank.txt"

IGNORE_NAMES ==
    {".DS_Store", ".gitkeep", ".gitignore", ".env", "__pycache__",
     "node_modules", "tmp", "venv"}

IGNORE_EXTS == {".db", ".sqlite", ".lock", ".log", ".bak", ".tmp", ".old"}

SUPPORTED_EXTS == {".txt", ".md", ".pdf", ".json", ".csv", ".yml", ".yaml"}

\* loader._should_skip, for a regular file
should_skip(name) ==
    IF StartsWithDot(name) THEN name # ".DS_Store"
    ELSE IF name \in IGNORE_NAMES THEN TRUE
    ELSE IF Suffix(name) \in IGNORE_EXTS THEN TRUE
    ELSE IF name = ".DS_Store" THEN TRUE
    ELSE Suffix(name) # "" /\ Suffix(name) \notin SUPPORTED_EXTS

\* loader.load_documents: one document per file kept
load_documents(entries) ==
    {name \in entries : ~should_skip(name) /\ ~Blank(name)}

\* query._iter_valid_files (IGNORE_EXTENSIONS there is IGNORE_EXTS here)
iter_valid_files(entries) ==
    {name \in entries :
        /\ ~(StartsWithDot(name) \/ name \in IGNORE_NAMES)
        /\ Suffix(name) \notin IGNORE_EXTS}

\* query._docs_from_files
docs_from_filesKeepBlank(valid) == valid

docs_from_files(valid) == {name \in valid : ~Blank(name)}

\* store._persist_path of a Path: the directory itself
persist_path(dir) == dir

\* store._get_local_client: DATA_ROOT / kb_dir.name
get_local_path(dir) ==
    IF dir = DEFAULT_KB_DIR THEN "data/kb/default" ELSE "data/kb/kb"

\* kb_dir.iterdir(), rglob("*"): the source files and what chroma keeps there
DirEntries(files, storeFile) ==
    files \cup (IF storeFile THEN {ChromaFile} ELSE {})

\* the chunks one build makes of its documents
Chunks(docs, id) == {[doc |-> name, build |-> id] : name \in docs}

\* store.build_index up to from_documents: the collection at the persist
\* path is opened (and created) and the documents are queued for embedding
StartBuild(op, dir, count, docs) ==
    [index EXCEPT !.storeFile[dir] = TRUE,
               !.read = NoRead,
               !.builds = @ + 1,
               !.building = [active |-> TRUE, op |-> op, dir |-> dir,
                             id |-> index.builds + 1, docs |-> docs,
                             pending |-> docs,
                             before |-> index.coll[persist_path(dir)]],
               !.last = [op |-> op, dir |-> dir, count |-> count,
                         issued |-> TRUE, docs |-> docs,
                         status |-> "building"]]

IndexInit ==
    /\ AssetInit
    /\ retry = RetryOff
    /\ store = StoreOff
    /\ procs = ProcsOff
    /\ inject = InjectOff
    /\ loader = LoaderOff
    /\ gen = GenOff
    /\ \E shipped \in SUBSET {"brand.md"},
          own \in {f \in SUBSET SourceFiles : Cardinality(f) <= MaxFiles} :
         index = [KbOff EXCEPT !.pc = "on",
                               !.files = [dir \in KbDirs |->
                                             IF dir = DEFAULT_KB_DIR
                                             THEN shipped ELSE own]]

\* query.build_if_needed for a video whose record resolves to dir:
\* collection_stats opens the collection at the persist path, then the guard
\* `count == 0 and any(kb_dir.iterdir())`, then load_documents and
\* build_index
BuildIfNeeded(dir) ==
    /\ index.pc = "on"
    /\ ~index.building.active
    /\ index.builds < MaxBuilds
    /\ LET count == Cardinality(index.coll[persist_path(dir)])
           entries == DirEntries(index.files[dir], TRUE)
       IN  index' = IF count = 0 /\ entries # {}
                 THEN StartBuild("build_if_needed", dir, count,
                                 load_documents(entries))
                 ELSE [index EXCEPT !.storeFile[dir] = TRUE,
                                 !.read = NoRead,
                                 !.last = [op |-> "build_if_needed",
                                           dir |-> dir, count |-> count,
                                           issued |-> FALSE, docs |-> {},
                                           status |-> "skipped"]]
    /\ UNCHANGED <<pipelineVars, retry, store, procs, inject, loader, gen>>

\* query.build_kb_for_video, as `vaio kb build` calls it: the valid files of
\* the directory, their documents, build_index
BuildKb(dir) ==
    /\ index.pc = "on"
    /\ ~index.building.active
    /\ index.builds < MaxBuilds
    /\ LET count == Cardinality(index.coll[persist_path(dir)])
           docs == docs_from_files(iter_valid_files(
                       DirEntries(index.files[dir], index.storeFile[dir])))
       IN  index' = IF docs = {}
                 THEN [index EXCEPT !.read = NoRead,
                                 !.last = [op |-> "build", dir |-> dir,
                                           count |-> count,
                                           issued |-> FALSE, docs |-> {},
                                           status |-> "empty"]]
                 ELSE StartBuild("build", dir, count, docs)
    /\ UNCHANGED <<pipelineVars, retry, store, procs, inject, loader, gen>>

\* VectorStoreIndex.from_documents: the chunks are added to the collection
\* that is there, a batch at a time; nothing is removed first
BuildInsert ==
    /\ index.building.active
    /\ \E batch \in SUBSET index.building.pending \ {{}} :
         LET dir == index.building.dir
             new == Chunks(batch, index.building.id)
         IN  index' = [index EXCEPT !.coll[persist_path(dir)] = @ \cup new,
                              !.written[dir] = @ \cup new,
                              !.read = NoRead,
                              !.building.pending = @ \ batch]
    /\ UNCHANGED <<pipelineVars, retry, store, procs, inject, loader, gen>>

\* build_index returns
BuildFinish ==
    /\ index.building.active
    /\ index.building.pending = {}
    /\ index' = [index EXCEPT !.building = NoBuild, !.read = NoRead,
                              !.last.status = "built"]
    /\ UNCHANGED <<pipelineVars, retry, store, procs, inject, loader, gen>>

\* what a read of identity dir at a location records
ReadOf(op, dir, location) ==
    LET during == index.building.active /\ index.building.dir = dir
    IN  [op |-> op, dir |-> dir, seen |-> index.coll[location],
         written |-> index.written[dir],
         during |-> during,
         before |-> IF during THEN index.building.before ELSE {},
         target |-> IF during
                    THEN index.building.before
                           \cup Chunks(index.building.docs, index.building.id)
                    ELSE {}]

\* store.collection_stats(kb_dir), as `vaio kb stats` and prepare_kb call it
StatsRead(dir) ==
    /\ index.pc = "on"
    /\ index' = [index EXCEPT !.storeFile[dir] = TRUE,
                        !.read = ReadOf("stats", dir, persist_path(dir))]
    /\ UNCHANGED <<pipelineVars, retry, store, procs, inject, loader, gen>>

\* store.open_index(kb_name), as inject_context calls it
InjectRead(dir) ==
    /\ index.pc = "on"
    /\ index' = [index EXCEPT !.storeFile[dir] = TRUE,
                        !.read = ReadOf("inject", dir, persist_path(dir))]
    /\ UNCHANGED <<pipelineVars, retry, store, procs, inject, loader, gen>>

\* store.get_index(kb_dir), as retrieve and load_kb_if_available call it
RetrieveRead(dir) ==
    /\ index.pc = "on"
    /\ index' = [index EXCEPT !.read = ReadOf("retrieve", dir, get_local_path(dir))]
    /\ UNCHANGED <<pipelineVars, retry, store, procs, inject, loader, gen>>

IndexNext ==
    \/ \E dir \in KbDirs : BuildIfNeeded(dir)
    \/ \E dir \in KbDirs : BuildKb(dir)
    \/ BuildInsert
    \/ BuildFinish
    \/ \E dir \in KbDirs : StatsRead(dir)
    \/ \E dir \in KbDirs : InjectRead(dir)
    \/ \E dir \in KbDirs : RetrieveRead(dir)

IndexSpec == IndexInit /\ [][IndexNext]_vars

(***************************************************************************)
(* The documents the two building paths make of one directory: the files   *)
(* in the order the filesystem lists them, then load_documents (the path   *)
(* of build_if_needed) or _iter_valid_files and _docs_from_files (the path *)
(* of build_kb_for_video).  A document is [source, category].              *)
(***************************************************************************)
\* the files a directory may hold, chroma's own file among them
LoaderFiles == SourceFiles \cup {"reference/guide.md", ChromaFile}

\* the order of sorted() on these paths
PathOrder ==
    <<".DS_Store", ".gitignore", "blank.txt", "brand.md", "cache.db",
      "chroma.sqlite3", "notes.xyz", "poetry.lock", "reference/guide.md">>

PathRank(name) == CHOOSE i \in 1..Len(PathOrder) : PathOrder[i] = name

\* sorted(files)
RECURSIVE SortPaths(_)
SortPaths(files) ==
    IF files = {} THEN <<>>
    ELSE LET first == CHOOSE x \in files :
                         \A y \in files : PathRank(x) <= PathRank(y)
         IN  <<first>> \o SortPaths(files \ {first})

\* loader._category_for: "/reference/", "gia" or "guide" in the path
category_for(name) ==
    IF name = "reference/guide.md" THEN "reference" ELSE "marketing"

\* the orders in which glob("**/*") and rglob("*") may list the files
Listings(files) ==
    {l \in [1..Cardinality(files) -> files] :
        \A name \in files : \E i \in 1..Cardinality(files) : l[i] = name}

Range(seq) == {seq[i] : i \in 1..Len(seq)}

\* loader.load_documents: the files sorted, the kept ones tagged by path
LoadedDocs(listing) ==
    LET kept == SelectSeq(SortPaths(Range(listing)),
                          LAMBDA name : name \in load_documents({name}))
    IN  [i \in 1..Len(kept) |->
            [source |-> kept[i], category |-> category_for(kept[i])]]

\* query._docs_from_files(_iter_valid_files(kb)): the files as listed, the
\* kept ones all tagged marketing
ValidDocs(listing) ==
    LET kept == SelectSeq(listing,
                          LAMBDA name :
                              name \in docs_from_files(iter_valid_files({name})))
    IN  [i \in 1..Len(kept) |->
            [source |-> kept[i], category |-> "marketing"]]

LoaderInit ==
    /\ AssetInit
    /\ retry = RetryOff
    /\ store = StoreOff
    /\ procs = ProcsOff
    /\ inject = InjectOff
    /\ index = KbOff
    /\ gen = GenOff
    /\ \E files \in {f \in SUBSET LoaderFiles : Cardinality(f) <= MaxFiles} :
         loader = [LoaderOff EXCEPT !.pc = "ready", !.files = files]

\* the filesystem lists the directory
ListDirectory ==
    /\ loader.pc = "ready"
    /\ \E listing \in Listings(loader.files) :
         loader' = [loader EXCEPT !.pc = "listed", !.listing = listing]
    /\ UNCHANGED <<pipelineVars, retry, store, procs, inject, index, gen>>

\* build_if_needed: docs = load_documents(kb_dir)
LoadDocuments ==
    /\ loader.pc = "listed"
    /\ loader' = [loader EXCEPT !.pc = "done", !.op = "build_if_needed",
                                !.docs = LoadedDocs(loader.listing)]
    /\ UNCHANGED <<pipelineVars, retry, store, procs, inject, index, gen>>

\* build_kb_for_video: docs = _docs_from_files(_iter_valid_files(kb))
ValidDocuments ==
    /\ loader.pc = "listed"
    /\ loader' = [loader EXCEPT !.pc = "done", !.op = "build",
                                !.docs = ValidDocs(loader.listing)]
    /\ UNCHANGED <<pipelineVars, retry, store, procs, inject, index, gen>>

\* the same directory, unchanged, is built again
LoadAgain ==
    /\ loader.pc = "done"
    /\ loader.prevOp = "none"
    /\ loader' = [loader EXCEPT !.pc = "ready", !.prevOp = loader.op,
                                !.prev = loader.docs]
    /\ UNCHANGED <<pipelineVars, retry, store, procs, inject, index, gen>>

LoaderNext ==
    \/ ListDirectory
    \/ LoadDocuments
    \/ ValidDocuments
    \/ LoadAgain

LoaderSpec == LoaderInit /\ [][LoaderNext]_vars

(***************************************************************************)
(* description.process call by call: generate_description, generate_title  *)
(* and optimize_hashtags each put context into their prompt and then call  *)
(* chat_with_retries; then save_td and the checkpoint.  gen.description,   *)
(* gen.title and gen.hashtags record how the call of each ended.           *)
(***************************************************************************)
\* how a generation ends: what chat_with_retries gave, or inject_context
\* raised before it was called
GenerationOutcomes == ChatOutcomes \cup {"inject_raise"}

\* the outcomes that are an exception
Raises == {"raise", "inject_raise"}

DescInit ==
    /\ AssetInit
    /\ retry = RetryOff
    /\ store = StoreOff
    /\ procs = ProcsOff
    /\ inject = InjectOff
    /\ index = KbOff
    /\ loader = LoaderOff
    /\ \E from \in Step2Stages :
         gen = [GenOff EXCEPT !.pc = "description", !.stage = from]

\* generate_description, lines 323-329: nothing catches what the two calls
\* raise, so it leaves process
GenerateDescription ==
    /\ gen.pc = "description"
    /\ \E out \in GenerationOutcomes :
         gen' = IF out \in Raises
                THEN [gen EXCEPT !.pc = "done", !.description = out,
                                 !.aborted = TRUE]
                ELSE [gen EXCEPT !.pc = "title", !.description = out]
    /\ UNCHANGED <<pipelineVars, retry, store, procs, inject, index, loader>>

\* generate_title, lines 362-364: likewise
GenerateTitle ==
    /\ gen.pc = "title"
    /\ \E out \in GenerationOutcomes :
         gen' = IF out \in Raises
                THEN [gen EXCEPT !.pc = "done", !.title = out,
                                 !.aborted = TRUE]
                ELSE [gen EXCEPT !.pc = "hashtags", !.title = out]
    /\ UNCHANGED <<pipelineVars, retry, store, procs, inject, index, loader>>

\* optimize_hashtags, lines 396-419: both calls are inside try/except
\* Exception, which returns the hashtags of the guidelines instead
OptimizeHashtags ==
    /\ gen.pc = "hashtags"
    /\ \E out \in GenerationOutcomes :
         gen' = [gen EXCEPT !.pc = "save_td", !.hashtags = out]
    /\ UNCHANGED <<pipelineVars, retry, store, procs, inject, index, loader>>

\* save_td, lines 496-520: the file, then the stage
GenSaveTd ==
    /\ gen.pc = "save_td"
    /\ gen' = [gen EXCEPT !.pc = "confirm", !.tdWritten = TRUE,
                          !.stage = SaveTdStage]
    /\ UNCHANGED <<pipelineVars, retry, store, procs, inject, index, loader>>

\* process, lines 484-491: the checkpoint
GenConfirm ==
    /\ gen.pc = "confirm"
    /\ \E answer \in BOOLEAN :
         gen' = [gen EXCEPT !.pc = "done", !.confirmed = answer]
    /\ UNCHANGED <<pipelineVars, retry, store, procs, inject, index, loader>>

DescNext ==
    \/ GenerateDescription
    \/ GenerateTitle
    \/ OptimizeHashtags
    \/ GenSaveTd
    \/ GenConfirm

DescSpec == DescInit /\ [][DescNext]_vars

(***************************************************************************)
(* Properties                                                              *)
(***************************************************************************)
Rejections == {"rejected_captions", "rejected_td"}

\* the work of the stage that StageOrder[i] records as completed
WorkOrder ==
    <<"extract_audio", "generate_captions", "verify", "generate_td",
      "translate_td", "translate_captions", "tts">>

CompletedWork(s) == {WorkOrder[i] : i \in 1..StageRank(s)}

LaterWork(s) == {WorkOrder[i] : i \in (StageRank(s) + 1)..Len(WorkOrder)}

FullTrail == <<"audio_pending">> \o StageOrder

\* C1: over any sequence of resume runs, with approvals, rejections and
\* failing workers, no step moves the persisted stage to an earlier position
\* of the stage order.
StageNeverRegresses ==
    [][StageRank(StageOf(metaFile')) >= StageRank(PersistedStage)]_vars

\* C1 witness: the terminal stage was reached by a run that followed a
\* rejected checkpoint, with a fan-out worker that failed.
ReachedTerminalAfterRejection ==
    /\ runs >= 2
    /\ prevHalt \in Rejections
    /\ PersistedStage = "tts_done"
    /\ \E c \in DOMAIN results : ~results[c]

\* C2: when the user rejects a checkpoint the run exits and the persisted
\* stage is not the completed stage of that checkpoint (captions_verified for
\* the caption checkpoint, description_done for the title and description
\* checkpoint).
RejectionDoesNotAdvanceStage ==
    /\ halt = "rejected_captions" => PersistedStage # "captions_verified"
    /\ halt = "rejected_td" => PersistedStage # "description_done"

\* C3: from the rejection of a checkpoint until its approval, no run performs
\* work of a later stage: no description generation after a caption rejection,
\* no translation after a title and description rejection.
NoLaterWorkUntilApproved ==
    /\ lastRejected = "captions" => effects \cap LaterWork("captions_verified") = {}
    /\ lastRejected = "td" => effects \cap LaterWork("description_done") = {}

\* C4: a run that starts at captions_done with the captions file present runs
\* the caption checkpoint first: until the checkpoint has been run the
\* persisted stage stays captions_done, and the description is generated only
\* after it.
VerifyBeforeDescription ==
    (/\ halt = "running"
     /\ startStage = "captions_done"
     /\ srt[WHISPER_SRT_CODE] # "none"
     /\ "verify" \notin effects)
        => /\ PersistedStage = "captions_done"
           /\ "generate_td" \notin effects

\* C5: every change of the persisted stage moves it to the immediate
\* successor in the stage order.
StageAdvancesByOne ==
    [][StageRank(StageOf(metaFile')) # StageRank(PersistedStage)
         => StageRank(StageOf(metaFile')) = StageRank(PersistedStage) + 1]_vars

\* C6: a run that starts at stage S performs none of the work that S records
\* as completed.
NoCompletedWorkRedone ==
    runs > 0 => effects \cap CompletedWork(startStage) = {}

\* C7: a run that directly follows a run halted by a rejected checkpoint
\* writes none of the output files the halted run wrote.
NoFileWrittenTwice ==
    prevHalt \in Rejections => written \cap prevWritten = {}

\* C8: a run that starts at tts_done performs no stage work, writes no output
\* file and leaves the metadata file as it was.
TerminalResumeIsNoOp ==
    (runs > 0 /\ startStage = "tts_done")
        => /\ effects = {}
           /\ written = {}
           /\ metaFile = metaAtStart

\* C8 witness: a run that started at tts_done has ended.
ResumedAtTerminal ==
    /\ startStage = "tts_done"
    /\ halt = "stopped"

\* C9: when nothing aborts the pipeline and both checkpoints are approved,
\* resume invocations from a fresh asset eventually persist tts_done, and the
\* persisted stage has then taken every stage of the order, in order.
EventuallyTerminal ==
    <>(PersistedStage = "tts_done" /\ stageTrail = FullTrail)

\* C9 witness: the last stage function has finished and saved tts_done.
PipelineFinished ==
    /\ halt = "finished"
    /\ PersistedStage = "tts_done"
    /\ stageTrail = FullTrail

\* C10: a stage function entered while its input artifact is missing aborts
\* without a write: the metadata file stays what it was when the function was
\* entered, and so does the persisted stage.
MissingArtifactAborts ==
    stageEntry.missing
        => /\ metaFile = stageEntry.meta
           /\ PersistedStage = StageOf(stageEntry.meta)


\* C11: with initial delay d and at least one attempt allowed (n >= 1), a call
\* of the retry wrapper in which every attempt fails ends by raising, after
\* exactly n calls and the n-1 waits d, 2d, 4d, ..., 2^(n-2)d; no wait
\* follows the last attempt.
RetryFinished == retry.pc \in {"returned", "raised"}

DoublingWaits(d, n) == [i \in 1..(n - 1) |-> (2 ^ (i - 1)) * d]

RetryDoubling ==
    (RetryFinished /\ retry.max >= 1 /\ retry.value # "result")
        => /\ retry.pc = "raised"
           /\ retry.calls = retry.max
           /\ retry.waits = DoublingWaits(retry.init, retry.max)

ExhaustedAfterThreeWaits ==
    /\ retry.pc = "raised"
    /\ retry.max = 4
    /\ retry.init = 3
    /\ retry.waits = <<3, 6, 12>>

\* C12: for any configured maximum attempt count, the retry wrapper returns
\* normally only with the result of a successful call, the first one; when no
\* attempt succeeds it raises and returns no value.
RetryReturnsOnlySuccess ==
    (retry.pc = "returned") => retry.value = "result"


\* C13: in a fan-out stage over the N target languages in which k workers
\* fail (the generation call raised, or returned empty text), whatever the
\* interleaving, once every worker has finished the result map has one entry
\* per language, exactly k of them false, and the stage has not raised; the
\* result recorded for a worker is never changed by another worker.
FailedWorkers == {c \in DOMAIN chatOut : chatOut[c] \in {"empty", "raise"}}

FanOutCounts ==
    (pc \in {"translate_pool", "captions_pool"} /\ AllDone)
        => /\ DOMAIN results = TARGET_LANGUAGES
           /\ Cardinality({c \in DOMAIN results : ~results[c]})
                  = Cardinality(FailedWorkers)
           /\ \A c \in FailedWorkers : ~results[c]
           /\ halt = "running"

OutcomesKept ==
    \A c \in (DOMAIN results) \cap (DOMAIN results') : results'[c] = results[c]

FanOutCompleteness == [](FanOutCounts) /\ [][OutcomesKept]_vars

OneWorkerFailedOneSucceeded ==
    /\ pc = "translate_pool"
    /\ AllDone
    /\ \E c, d \in DOMAIN chatOut : chatOut[c] = "raise" /\ chatOut[d] = "text"
    /\ Cardinality(FailedWorkers) = 1

\* C14: whenever the persisted stage is translated (captions_translated), the
\* outcome map persisted with it has an entry for every target language, and
\* the stage is not persisted while a worker of that fan-out has yet to
\* finish.
OutcomeMapComplete ==
    /\ PersistedStage = "translated"
         => DOMAIN Get(metaFile.data, "translations", EmptyDict)
                = TARGET_LANGUAGES
    /\ PersistedStage = "captions_translated"
         => DOMAIN Get(metaFile.data, "caption_translations", EmptyDict)
                = TARGET_LANGUAGES
    /\ (pc = "translate_pool" /\ ~AllDone) => PersistedStage # "translated"
    /\ (pc = "captions_pool" /\ ~AllDone)
         => PersistedStage # "captions_translated"

TranslatedWithAFailedLanguage ==
    /\ PersistedStage = "translated"
    /\ \E c \in TARGET_LANGUAGES : metaFile.data["translations"][c] = "failed"


\* C15: load never fails: it returns the persisted record when there is a
\* readable one, and a fresh default with the initial stage when there is no
\* record or the file is malformed in any way.
DefaultMeta == [file |-> "video", stage |-> "audio_pending"]

LoadGivesRecordOrDefault ==
    /\ metaFile.kind # "json" => load_meta("video") = DefaultMeta
    /\ store.error # "TypeError"

\* C16: save replaces the record atomically: neither a crash during a save
\* nor a load during a save finds the file empty or partly written.
SaveIsAtomic ==
    /\ metaFile.kind # "partial"
    /\ store.loaded # "partial"

\* C18 as stated: every stage value written to the record is one of the
\* eight enumerated stages.
EnumeratedStages == {"init"} \cup {StageOrder[i] : i \in 1..Len(StageOrder)}

WrittenStageEnumerated ==
    metaFile.kind = "json" => Get(metaFile.data, "stage", "none")
                                  \in EnumeratedStages

\* C18, amended: every stage value written to the record, by stage work or
\* by `kb set`, is one of the eight enumerated stages or audio_pending, the
\* initial value a load gives an asset without a record.
WrittenStageKnown ==
    metaFile.kind = "json" => Get(metaFile.data, "stage", "none") \in Stages

KbSetOnAssetWithoutRecord ==
    /\ metaFile.kind = "json"
    /\ runs = 0
    /\ "knowledge" \in DOMAIN metaFile.data
    /\ metaFile.data["stage"] = "audio_pending"


\* C17: single writer per asset: of two resume runs started on the same
\* asset, at most one is executing stage work (and so saving the record) at
\* any moment.
SingleWriterPerAsset ==
    Cardinality({p \in Procs : procs[p].pc \in AtWork}) <= 1


\* C19: the context injected holds no candidate whose score is present and
\* at or below 0.35; the candidates scored above 0.35 or without a score are
\* the ones that appear.
ConfidenceFilterApplied ==
    \A c \in inject.context : c = NoScore \/ c > 35

\* C20: when opening the index or the similarity query raises, inject returns
\* the original prompt and no error reaches the caller.
RetrievalFailureDegrades ==
    inject.failed \in {"open_index", "retrieve"} => inject.result = "prompt"


EndsWith(text, tail) ==
    /\ Len(tail) <= Len(text)
    /\ SubSeq(text, Len(text) - Len(tail) + 1, Len(text)) = tail

\* C21: whenever inject returns, the returned text ends with the caller's
\* prompt, piece for piece: it is the prompt itself or a context block
\* followed by the prompt.
PromptKept ==
    (inject.op = "inject" /\ inject.pc = "done" /\ inject.result # "raised")
        => /\ EndsWith(inject.text, inject.prompt)
           /\ inject.result = "prompt" => inject.text = inject.prompt

AugmentedPromptWithSeparatorInIt ==
    /\ inject.op = "inject"
    /\ inject.result = "augmented"
    /\ inject.prompt = <<"---", "text">>
    /\ Len(inject.text) > Len(inject.prompt)

\* the record of the asset has knowledge: null
KnowledgeIsNull ==
    /\ metaFile.kind = "json"
    /\ Get(metaFile.data, "knowledge", "__unset__") = "null"

RetrieveBounded ==
    (inject.op = "retrieve" /\ inject.pc = "done")
        => /\ inject.result = "list"
           /\ Cardinality(inject.nodes) <= inject.topK
           /\ (inject.kbName = "None" \/ inject.coll = {}
                 \/ inject.failed # "none") => inject.nodes = {}

RetrieveCutAtTopK ==
    /\ inject.op = "retrieve"
    /\ inject.pc = "done"
    /\ inject.topK = 2
    /\ Cardinality(inject.coll) = 4
    /\ Cardinality(inject.nodes) = 2

\* C24: for the title and desc tasks every chunk retrieved for injection is
\* a marketing chunk, and the filter is part of the query: with at least
\* topK marketing chunks in the collection topK chunks are retrieved, even
\* when other chunks are nearer; for the translate task the nearest topK
\* chunks of any category are retrieved.
MarketingOnly ==
    (inject.op = "inject" /\ inject.pc \in {"format", "done"}
       /\ inject.failed = "none" /\ inject.kbName # "None")
        => /\ inject.task \in {"title", "desc"}
                => /\ \A n \in inject.nodes : CategoryOf[n] = "marketing"
                   /\ Cardinality(Filtered(inject.coll, "title"))
                          >= inject.topK
                        => Cardinality(inject.nodes) = inject.topK
           /\ inject.task = "translate"
                => inject.nodes \in Nearest(inject.coll, inject.topK)

MarketingChosenOverNearerReference ==
    /\ inject.op = "inject"
    /\ inject.pc = "done"
    /\ inject.task = "title"
    /\ inject.topK = 1
    /\ {35, 40} \subseteq inject.coll
    /\ inject.context = {35}


\* the name or the extension of a file is on the loader's denylist
Denylisted(name) == name \in IGNORE_NAMES \/ Suffix(name) \in IGNORE_EXTS

\* C25: build_if_needed issues a build exactly when the collection has no
\* entry and the knowledge directory holds at least one source file; in
\* every other case it embeds nothing.
BuildOnlyWhenEmptyWithSources ==
    index.last.op = "build_if_needed"
        => LET due == index.last.count = 0 /\ index.files[index.last.dir] # {}
           IN  /\ index.last.issued <=> due
               /\ ~due => index.last.docs = {}

\* C26: after a build of an identity has returned, its collection holds
\* exactly the chunks of that build, one for each document.
RebuildHoldsOneBuild ==
    (index.last.op = "build" /\ index.last.status = "built")
        => LET c == index.coll[persist_path(index.last.dir)]
           IN  /\ Cardinality(c) = Cardinality(index.last.docs)
               /\ {chunk.doc : chunk \in c} = index.last.docs

\* C27: every read of an identity, made while no build of it is running,
\* sees the chunks the builds of that identity wrote.
SameCollectionEveryRead ==
    (index.read.op # "none" /\ ~index.read.during)
        => index.read.seen = index.read.written

\* C28: an injection that opens the index of an identity while a build of
\* it is running sees the collection as it was before the build or with
\* every document of the build.
NoPartialBuildSeen ==
    (index.read.op = "inject" /\ index.read.during)
        => index.read.seen \in {index.read.before, index.read.target}

\* C30: no document loaded by load_documents comes from a file whose name
\* or extension is on the denylist.
LoaderSkipsDenylist ==
    index.last.op = "build_if_needed"
        => \A name \in index.last.docs : ~Denylisted(name)


\* C31: every document handed to build_index, by build_if_needed and by
\* build_kb_for_video, has text that is not empty after stripping.
NoEmptyTextIndexed ==
    /\ \A name \in index.building.docs : ~Blank(name)
    /\ \A name \in index.last.docs : ~Blank(name)
    /\ \A loc \in Locations : \A chunk \in index.coll[loc] : ~Blank(chunk.doc)

BuiltFromDirWithBlankFile ==
    /\ index.last.op = "build"
    /\ index.last.status = "built"
    /\ "blank.txt" \in index.files[index.last.dir]
    /\ index.last.docs # {}


\* C32: the documents made of a directory are in the order of their paths,
\* and two builds of the unchanged directory by the same path give the same
\* sequence of documents, however the filesystem lists the files.
DocsOrderedByPath ==
    loader.pc = "done"
        => /\ \A i, j \in 1..Len(loader.docs) :
                i < j => PathRank(loader.docs[i].source)
                           < PathRank(loader.docs[j].source)
           /\ loader.prevOp = loader.op => loader.docs = loader.prev

\* C38: on the same directory build_kb_for_video and build_if_needed index
\* the same files and give each file the same category.
BuildPathsEquivalent ==
    loader.pc = "done"
        => Range(LoadedDocs(loader.listing)) = Range(ValidDocs(loader.listing))


\* C34: no step of a fan-out stage changes the file the stage translates
\* from: the TD translation leaves td.<td_lang>.txt as it is and the caption
\* translation leaves the source captions file as it is.
FanOutLeavesSourceAlone ==
    [][/\ pc = "translate_pool" => td'[tdLang] = td[tdLang]
       /\ pc = "captions_pool" => srt'[prefCode] = srt[prefCode]]_vars


\* C36: the step in which a fan-out worker finishes writes the worker's
\* output file exactly when the worker reports success: a worker that
\* reports failure leaves the file of its language as it was, and a worker
\* that reports success has written a translation, which is not empty.
WorkerWritesIffSuccess ==
    [][\A c \in TARGET_LANGUAGES :
         (c \in DOMAIN results' /\ c \notin DOMAIN results)
            => /\ pc = "translate_pool"
                    => /\ results'[c] <=> chatOut'[c] = "text"
                       /\ results'[c] => td'[c] = "translated"
                       /\ ~results'[c] => td'[c] = td[c]
                       /\ srt' = srt
               /\ pc = "captions_pool"
                    => /\ results'[c] <=> chatOut'[c] = "text"
                       /\ results'[c] => srt'[c] = "translated"
                       /\ ~results'[c] => srt'[c] = srt[c]
                       /\ td' = td]_vars

FailedWorkerKeptOldOutput ==
    /\ pc = "translate_pool"
    /\ \E c \in DOMAIN results :
         /\ ~results[c]
         /\ chatOut[c] = "empty"
         /\ td[c] # "none"
    /\ \E c \in DOMAIN results : results[c]


\* the keys the operation at a given point of the run sets in the record;
\* the pipeline is idle while `vaio kb set` runs
OwnedKeys(at) ==
    IF at = "extract" THEN {"stage"}
    ELSE IF at = "whisper" THEN {"stage", "detected_language"}
    ELSE IF at = "verify" THEN {"stage", "verified_caption_length"}
    ELSE IF at = "save_td" THEN {"stage", "td_lang", "td_file"}
    ELSE IF at = "translate_pool"
    THEN {"stage", "translations", "translated_from"}
    ELSE IF at = "captions_pool"
    THEN {"stage", "caption_source_lang", "caption_translations"}
    ELSE IF at = "tts" THEN {"stage", "tts_from_captions"}
    ELSE IF at = "idle" THEN {"knowledge"}
    ELSE {}

SucceededAt == IF retry.value = "result" THEN retry.calls ELSE 0

\* how a finished wrapper ended
RetryOutcome ==
    [pc |-> retry.pc, value |-> retry.value, calls |-> retry.calls,
     waits |-> retry.waits]

\* the step-by-step wrapper ends as the function says
MachineMatchesWrapper ==
    RetryFinished
        => RetryOutcome = RunWrapper(retry.variant, retry.max, 1, retry.init,
                                     <<>>, SucceededAt)

\* C37: utils.retry and a stage's chat_with_retries, given the same maximum
\* attempt count, initial delay and pattern of success and failure, make
\* the same number of calls, wait the same delays and end the same way.
WrappersEquivalent ==
    RetryFinished
        => RunWrapper("utils", retry.max, 1, retry.init, <<>>, SucceededAt)
             = RunWrapper("stage", retry.max, 1, retry.init, <<>>,
                          SucceededAt)


\* C33: when the generation call of the description, the title or the
\* hashtags fails on every attempt, the stage aborts: no title/description
\* file is written and the stage is not advanced to description_done.
GenerationFailureAborts ==
    (gen.pc \in {"save_td", "confirm", "done"}
       /\ "raise" \in {gen.description, gen.title, gen.hashtags})
        => /\ gen.aborted
           /\ ~gen.tdWritten
           /\ gen.stage # "description_done"

=============================================================================
